---- MODULE Spec2Model ----
(***************************************************************************)
(* Model of micromdns (src/src/main.rs): an mDNS responder daemon that     *)
(* polls the host's network interfaces and restarts the responder when     *)
(* the filtered interface snapshot changes.                                *)
(*                                                                         *)
(* Strings are sequences of one-character strings, so that split, trim and *)
(* the byte-wise ordering of Rust strings are computed, not assumed.       *)
(* IPv4 addresses are 4-tuples of octets; Option<u32> is <<>> or <<n>>.    *)
(***************************************************************************)
EXTENDS Integers, Sequences, FiniteSets, TLC

VARIABLES
    pc,         \* position of main: the startup steps, the loop, the exit
    filter,     \* main's `filter` (line 270)
    name,       \* options.name (line 260)
    snapshot,   \* main's held `snapshot` (lines 282, 312)
    responder,  \* main's `responder`: <<>> is None, <<h>> is Some(handle h)
    live,       \* the responders running in the collaborator, as records
    stops,      \* stops[h]: how many times handle h has been dropped
    startCalls, \* number of start_responder calls made so far
    calls,      \* collaborator calls made by the handler now running (or last run)
    prev,       \* the handler, and the held snapshot and handle when it began
    changes,    \* number of ticks that collected a snapshot unlike the held one
    ctrlc       \* the Ctrl+C notification as seen by the loop's select

vars == <<pc, filter, name, snapshot, responder, live, stops, startCalls,
          calls, prev, changes, ctrlc>>

----------------------------------------------------------------------------
(* Bounds of the model *)

\* the longest interface list an enumeration returns
MaxIfaces == 2
\* the most start_responder calls in one run
MaxStarts == 3
\* the longest interface list given to the functions checked on their own
MaxFnIfaces == 3

----------------------------------------------------------------------------
(* Strings, addresses and their orderings *)

\* byte value of the characters that occur in the model (String's Ord is byte-wise)
Code(c) ==
    CASE c = " " -> 32 [] c = "*" -> 42 [] c = "," -> 44 [] c = "." -> 46
      [] c = "0" -> 48 [] c = "a" -> 97 [] c = "c" -> 99 [] c = "e" -> 101
      [] c = "h" -> 104 [] c = "l" -> 108 [] c = "n" -> 110 [] c = "o" -> 111
      [] c = "t" -> 116 [] c = "w" -> 119

StrKey(s) == [i \in 1..Len(s) |-> Code(s[i])]

MinOf(S) == CHOOSE x \in S : \A y \in S : x <= y
MaxOf(S) == CHOOSE x \in S : \A y \in S : x >= y

\* lexicographic order on sequences of integers: Ord of String (bytes),
\* of Ipv4Addr (octets) and of Option<u32> (None < Some(_))
IntSeqLess(a, b) ==
    \E k \in 1..(MinOf({Len(a), Len(b)}) + 1) :
        /\ \A j \in 1..(k - 1) : a[j] = b[j]
        /\ IF k > Len(a) THEN k <= Len(b)
           ELSE k <= Len(b) /\ a[k] < b[k]

eth0 == <<"e", "t", "h", "0">>
wlan0 == <<"w", "l", "a", "n", "0">>
lo == <<"l", "o">>
Star == <<"*">>

\* the interfaces an enumeration can report: [name, ip, index]
IfacePool ==
    { [name |-> eth0, ip |-> <<10, 0, 0, 5>>, index |-> <<2>>],
      [name |-> wlan0, ip |-> <<10, 0, 0, 6>>, index |-> <<>>],
      [name |-> lo, ip |-> <<127, 0, 0, 1>>, index |-> <<1>>] }

\* every result get_if_addrs() can return within the bound
Enumerations == UNION { [1..n -> IfacePool] : n \in 0..MaxIfaces }

\* derive(PartialOrd, Ord) on InterfaceSnapshot: by name, then ip, then index
SnapshotLess(x, y) ==
    \/ IntSeqLess(StrKey(x.name), StrKey(y.name))
    \/ /\ x.name = y.name
       /\ \/ IntSeqLess(x.ip, y.ip)
          \/ x.ip = y.ip /\ IntSeqLess(x.index, y.index)

----------------------------------------------------------------------------
(* InterfaceFilter *)

FilterAll == [kind |-> "All", only |-> {}]
FilterOnly(S) == [kind |-> "Only", only |-> S]

\* str::split(','): the pieces between commas
RECURSIVE Split(_)
Split(s) ==
    LET commas == {i \in 1..Len(s) : s[i] = ","} IN
    IF commas = {} THEN <<s>>
    ELSE LET k == MinOf(commas) IN
         <<SubSeq(s, 1, k - 1)>> \o Split(SubSeq(s, k + 1, Len(s)))

\* char::is_whitespace, the Unicode White_Space characters that str::trim()
\* strips: space, tab, line feed, carriage return, form feed, then vertical
\* tab (U+000B), next line (U+0085), no-break space (U+00A0) and the ogham
\* space mark (U+1680); the spaces of U+2000 and above are outside the
\* alphabet of the model's strings
Whitespace ==
    {" ", "\t", "\n", "\r", "\f", "", "", " ", " "}

\* str::trim(): without leading and trailing whitespace
Trim(s) ==
    LET solid == {i \in 1..Len(s) : s[i] \notin Whitespace} IN
    IF solid = {} THEN <<>> ELSE SubSeq(s, MinOf(solid), MaxOf(solid))

RECURSIVE Flatten(_)
Flatten(ss) == IF ss = <<>> THEN <<>> ELSE Head(ss) \o Flatten(Tail(ss))

\* the loops of from_values over the items, in order, with their early return
RECURSIVE ScanItems(_, _)
ScanItems(items, selected) ==
    IF items = <<>>
    THEN IF selected = {} THEN FilterAll ELSE FilterOnly(selected)
    ELSE LET iface == Trim(Head(items)) IN
         IF iface = <<>> THEN ScanItems(Tail(items), selected)
         ELSE IF iface = Star THEN FilterAll
         ELSE ScanItems(Tail(items), selected \cup {iface})

\* variant: the values are not split at commas
from_values_NoSplit(values) ==
    IF values = <<>> THEN FilterAll ELSE ScanItems(values, {})

from_values(values) ==
    IF values = <<>> THEN FilterAll
    ELSE ScanItems(Flatten([i \in 1..Len(values) |-> Split(values[i])]), {})

matches(f, iface_name) ==
    IF f.kind = "All" THEN TRUE ELSE iface_name \in f.only

----------------------------------------------------------------------------
(* Snapshot collection *)

\* Interface::is_loopback: the address is in 127.0.0.0/8
is_loopback(iface) == iface.ip[1] = 127

RECURSIVE InsertSorted(_, _)
InsertSorted(x, s) ==
    IF s = <<>> THEN <<x>>
    ELSE IF SnapshotLess(x, Head(s)) THEN <<x>> \o s
    ELSE <<Head(s)>> \o InsertSorted(x, Tail(s))

\* Vec::sort() on the entries
RECURSIVE SortSnapshot(_)
SortSnapshot(s) ==
    IF s = <<>> THEN <<>> ELSE InsertSorted(Head(s), SortSnapshot(Tail(s)))

\* variant: the sort of line 182 is missing
collect_snapshot_Unsorted(f, ifaces) ==
    SelectSeq(ifaces,
        LAMBDA iface : ~is_loopback(iface) /\ matches(f, iface.name))

\* collect_snapshot on a successful enumeration
collect_snapshot(f, ifaces) ==
    SortSnapshot(SelectSeq(ifaces,
        LAMBDA iface : ~is_loopback(iface) /\ matches(f, iface.name)))

\* variant: the existing names are taken from the non-loopback interfaces
collect_missing_interfaces_SkipsLoopback(f, ifaces) ==
    IF f.kind # "Only" THEN {}
    ELSE LET existing == {ifaces[i].name :
                            i \in {j \in 1..Len(ifaces) : ~is_loopback(ifaces[j])}}
         IN  {iface \in f.only : iface \notin existing}

\* collect_missing_interfaces on a successful enumeration, as the set of names
collect_missing_interfaces(f, ifaces) ==
    IF f.kind # "Only" THEN {}
    ELSE LET existing == {ifaces[i].name : i \in 1..Len(ifaces)} IN
         {iface \in f.only : iface \notin existing}

RECURSIVE InsertIp(_, _)
InsertIp(x, s) ==
    IF s = <<>> THEN <<x>>
    ELSE IF IntSeqLess(x, Head(s)) THEN <<x>> \o s
    ELSE <<Head(s)>> \o InsertIp(x, Tail(s))

RECURSIVE SortIps(_)
SortIps(s) == IF s = <<>> THEN <<>> ELSE InsertIp(Head(s), SortIps(Tail(s)))

\* Vec::dedup(): drops an element equal to the one before it
RECURSIVE Dedup(_)
Dedup(s) ==
    IF Len(s) <= 1 THEN s
    ELSE IF s[1] = s[2] THEN Dedup(Tail(s))
    ELSE <<Head(s)>> \o Dedup(Tail(s))

\* variant: the dedup of line 210 is missing
selected_ips_NoDedup(f, snap) ==
    IF f.kind = "All" THEN <<>>
    ELSE SortIps([i \in 1..Len(snap) |-> snap[i].ip])

selected_ips(f, snap) ==
    IF f.kind = "All" THEN <<>>
    ELSE Dedup(SortIps([i \in 1..Len(snap) |-> snap[i].ip]))

DotLocal == <<".", "l", "o", "c", "a", "l">>

ends_with(s, suffix) ==
    /\ Len(s) >= Len(suffix)
    /\ SubSeq(s, Len(s) - Len(suffix) + 1, Len(s)) = suffix

fqdn_name(n) == IF ends_with(n, DotLocal) THEN n ELSE n \o DotLocal

\* variant: the responder is handed the display list (line 228) in place of
\* allowed_ips
start_responder_DisplayIps(n, f, snap) ==
    [hostname |-> n,
     ips |-> Dedup(SortIps([i \in 1..Len(snap) |-> snap[i].ip]))]

\* the arguments start_responder hands to
\* Responder::with_default_handle_and_ip_list_and_hostname
start_responder(n, f, snap) ==
    [hostname |-> n, ips |-> selected_ips(f, snap)]

----------------------------------------------------------------------------
(* Inputs *)

\* options.interfaces as parse_args leaves it (never empty: "*" is pushed)
RawValues ==
    { <<Star>>,
      <<eth0>>,
      <<eth0 \o <<",", " ">> \o wlan0>>,
      <<<<" ">> \o wlan0 \o <<" ", ",">>, eth0>> }

\* options.name: trimmed and not empty
Names == { <<"h">>, <<"h">> \o DotLocal }

LoopPcs == {"select", "drop_old", "restart"}
----------------------------------------------------------------------------
(* The collaborators: the responder library and the Ctrl+C future *)

None == <<>>
Some(x) == <<x>>

\* the handle the next successful start returns
NewHandle == Len(stops) + 1

\* the collaborator's reading of its address list: an empty list is no
\* restriction (selected_ips returns it for the All filter, lines 204-206)
Unrestricted(ips) == ips = <<>>

\* the record of a responder running in the collaborator
Service(h, n, f, snap) ==
    [handle |-> h, snap |-> snap,
     hostname |-> start_responder(n, f, snap).hostname,
     ips |-> start_responder(n, f, snap).ips]

\* drop(Responder): the responders running once the held one is dropped
LiveAfterDrop(held) ==
    IF held = None THEN live ELSE {s \in live : s.handle # held[1]}

StopsAfterDrop(held) ==
    IF held = None THEN stops ELSE [stops EXCEPT ![held[1]] = @ + 1]

StopEvents(held) ==
    IF held = None THEN <<>> ELSE <<[op |-> "stop", handle |-> held[1]]>>

CollectEvent(ok, snap) == [op |-> "collect", ok |-> ok, snap |-> snap]

StartEvent(ok, h, snap) ==
    [op |-> "start", ok |-> ok, handle |-> h, snap |-> snap,
     hostname |-> start_responder(name, filter, snap).hostname,
     ips |-> start_responder(name, filter, snap).ips]

Began(handler) ==
    [handler |-> handler, snapshot |-> snapshot, responder |-> responder]

\* select! completes with the tick branch: the ctrl_c() future of this
\* iteration is dropped, and a notification it had received goes with it
\* (a later ctrl_c() future completes only on a signal delivered after it
\* was created)
TickWins(c) == IF c = "notified" THEN "dropped" ELSE c

\* the loop is back at select! with a new ctrl_c() future: a signal that
\* arrived while the handler ran is delivered to it once the task parks
NextSelect(c) == IF c = "raised" THEN "notified" ELSE c

----------------------------------------------------------------------------
(* main *)

Init ==
    /\ pc = "collect_missing"
    /\ filter \in {from_values(values) : values \in RawValues}
    /\ name \in Names
    /\ snapshot = <<>>
    /\ responder = None
    /\ live = {}
    /\ stops = <<>>
    /\ startCalls = 0
    /\ calls = <<>>
    /\ prev = [handler |-> "startup", snapshot |-> <<>>, responder |-> None]
    /\ changes = 0
    /\ ctrlc = "idle"

\* lines 277-280: the missing-interface advisory; `?` exits on an I/O error.
\* Under the All filter the enumeration is not called.
StartupMissing ==
    /\ pc = "collect_missing"
    /\ \/ /\ filter.kind = "All"
          /\ pc' = "collect_snapshot"
          /\ calls' = calls
       \/ /\ filter.kind = "Only"
          /\ \E ifaces \in Enumerations :
                LET missing == collect_missing_interfaces(filter, ifaces) IN
                /\ pc' = "collect_snapshot"
                /\ calls' = calls \o <<[op |-> "enumerate", ok |-> TRUE]>>
                      \o (IF missing # {}
                          THEN <<[op |-> "warn_missing", names |-> missing]>>
                          ELSE <<>>)
       \/ /\ filter.kind = "Only"
          /\ pc' = "Failed"
          /\ calls' = calls \o <<[op |-> "enumerate", ok |-> FALSE]>>
    /\ UNCHANGED <<filter, name, snapshot, responder, live, stops, startCalls,
                   prev, changes, ctrlc>>

\* variant: an empty first snapshot is treated as a fatal error
StartupSnapshot_EmptyIsError ==
    /\ pc = "collect_snapshot"
    /\ \/ \E ifaces \in Enumerations :
             /\ snapshot' = collect_snapshot(filter, ifaces)
             /\ calls' = Append(calls, CollectEvent(TRUE, snapshot'))
             /\ pc' = IF snapshot' = <<>> THEN "Failed" ELSE "start_responder"
       \/ /\ calls' = Append(calls, CollectEvent(FALSE, <<>>))
          /\ pc' = "Failed"
          /\ UNCHANGED snapshot
    /\ UNCHANGED <<filter, name, responder, live, stops, startCalls, prev,
                   changes, ctrlc>>

\* lines 282-286: the first snapshot; `?` exits on an I/O error
StartupSnapshot ==
    /\ pc = "collect_snapshot"
    /\ \/ \E ifaces \in Enumerations :
             /\ snapshot' = collect_snapshot(filter, ifaces)
             /\ calls' = Append(calls, CollectEvent(TRUE, snapshot'))
             /\ pc' = "start_responder"
       \/ /\ calls' = Append(calls, CollectEvent(FALSE, <<>>))
          /\ pc' = "Failed"
          /\ UNCHANGED snapshot
    /\ UNCHANGED <<filter, name, responder, live, stops, startCalls, prev,
                   changes, ctrlc>>

\* lines 288-291: the initial start; `?` exits on an error
StartupResponder ==
    /\ pc = "start_responder"
    /\ startCalls' = startCalls + 1
    /\ \/ /\ live' = live \cup {Service(NewHandle, name, filter, snapshot)}
          /\ stops' = Append(stops, 0)
          /\ responder' = Some(NewHandle)
          /\ calls' = Append(calls, StartEvent(TRUE, NewHandle, snapshot))
          /\ pc' = "select"
       \/ /\ calls' = Append(calls, StartEvent(FALSE, 0, snapshot))
          /\ pc' = "Failed"
          /\ UNCHANGED <<live, stops, responder>>
    /\ UNCHANGED <<filter, name, snapshot, prev, changes, ctrlc>>

\* variant: a failed refresh is taken for an empty interface list
TickCollectFail_AsEmpty ==
    /\ pc = "select"
    /\ startCalls < MaxStarts
    /\ prev' = Began("tick")
    /\ calls' = <<CollectEvent(FALSE, <<>>)>>
    /\ snapshot' = <<>>
    /\ ctrlc' = TickWins(ctrlc)
    /\ pc' = "drop_old"
    /\ UNCHANGED <<filter, name, responder, live, stops, startCalls, changes>>

\* variant: a failed refresh is propagated with `?` and main returns
TickCollectFail_Propagates ==
    /\ pc = "select"
    /\ prev' = Began("tick")
    /\ calls' = <<CollectEvent(FALSE, <<>>)>>
    /\ ctrlc' = TickWins(ctrlc)
    /\ pc' = "Failed"
    /\ UNCHANGED <<filter, name, snapshot, responder, live, stops, startCalls,
                   changes>>

\* lines 299-306: the tick branch, collect_snapshot fails: warn and continue
TickCollectFail ==
    /\ pc = "select"
    /\ prev' = Began("tick")
    /\ calls' = <<CollectEvent(FALSE, <<>>)>>
    /\ ctrlc' = NextSelect(TickWins(ctrlc))
    /\ pc' = "select"
    /\ UNCHANGED <<filter, name, snapshot, responder, live, stops, startCalls,
                   changes>>

\* variant: the comparison of line 308 is missing, every refresh restarts
TickUnchanged_Restarts ==
    /\ pc = "select"
    /\ startCalls < MaxStarts
    /\ \E ifaces \in Enumerations :
          LET current_snapshot == collect_snapshot(filter, ifaces) IN
          /\ ~(current_snapshot # snapshot)
          /\ calls' = <<CollectEvent(TRUE, current_snapshot)>>
    /\ prev' = Began("tick")
    /\ ctrlc' = TickWins(ctrlc)
    /\ pc' = "drop_old"
    /\ UNCHANGED <<filter, name, snapshot, responder, live, stops, startCalls,
                   changes>>

\* variant: with no responder held, an unchanged snapshot starts one anyway
TickUnchanged_RetriesWhenDown ==
    /\ pc = "select"
    /\ \E ifaces \in Enumerations :
          LET current_snapshot == collect_snapshot(filter, ifaces) IN
          /\ ~(current_snapshot # snapshot)
          /\ calls' = <<CollectEvent(TRUE, current_snapshot)>>
    /\ prev' = Began("tick")
    /\ IF responder = None /\ startCalls < MaxStarts
       THEN ctrlc' = TickWins(ctrlc) /\ pc' = "drop_old"
       ELSE ctrlc' = NextSelect(TickWins(ctrlc)) /\ pc' = "select"
    /\ UNCHANGED <<filter, name, snapshot, responder, live, stops, startCalls,
                   changes>>

\* lines 299-308, 327-328: the tick branch, the snapshot is the held one
TickUnchanged ==
    /\ pc = "select"
    /\ \E ifaces \in Enumerations :
          LET current_snapshot == collect_snapshot(filter, ifaces) IN
          /\ ~(current_snapshot # snapshot)
          /\ calls' = <<CollectEvent(TRUE, current_snapshot)>>
    /\ prev' = Began("tick")
    /\ ctrlc' = NextSelect(TickWins(ctrlc))
    /\ pc' = "select"
    /\ UNCHANGED <<filter, name, snapshot, responder, live, stops, startCalls,
                   changes>>

\* variant: the assignment of line 312 is missing
TickChanged_KeepsOld ==
    /\ pc = "select"
    /\ startCalls < MaxStarts
    /\ \E ifaces \in Enumerations :
          LET current_snapshot == collect_snapshot(filter, ifaces) IN
          /\ current_snapshot # snapshot
          /\ calls' = <<CollectEvent(TRUE, current_snapshot)>>
    /\ prev' = Began("tick")
    /\ changes' = changes + 1
    /\ ctrlc' = TickWins(ctrlc)
    /\ pc' = "drop_old"
    /\ UNCHANGED <<filter, name, snapshot, responder, live, stops, startCalls>>

\* lines 299-312: the tick branch, the snapshot differs: it becomes the held one
TickChanged ==
    /\ pc = "select"
    /\ startCalls < MaxStarts
    /\ \E ifaces \in Enumerations :
          LET current_snapshot == collect_snapshot(filter, ifaces) IN
          /\ current_snapshot # snapshot
          /\ calls' = <<CollectEvent(TRUE, current_snapshot)>>
          /\ snapshot' = current_snapshot
    /\ prev' = Began("tick")
    /\ changes' = changes + 1
    /\ ctrlc' = TickWins(ctrlc)
    /\ pc' = "drop_old"
    /\ UNCHANGED <<filter, name, responder, live, stops, startCalls>>

\* variant: lines 314-316 are missing, the old responder is still held and
\* running when the new one is started
DropOld_Omitted ==
    /\ pc = "drop_old"
    /\ pc' = "restart"
    /\ UNCHANGED <<filter, name, snapshot, responder, live, stops, startCalls,
                   calls, prev, changes, ctrlc>>

\* lines 314-316: responder.take() and the drop of the old responder
DropOld ==
    /\ pc = "drop_old"
    /\ live' = LiveAfterDrop(responder)
    /\ stops' = StopsAfterDrop(responder)
    /\ calls' = calls \o StopEvents(responder)
    /\ responder' = None
    /\ pc' = "restart"
    /\ UNCHANGED <<filter, name, snapshot, startCalls, prev, changes, ctrlc>>

\* variant: a failed start puts the old snapshot back, so the next tick
\* sees the change again
Restart_RevertsOnFailure ==
    /\ pc = "restart"
    /\ startCalls' = startCalls + 1
    /\ \/ /\ live' = LiveAfterDrop(responder)
                        \cup {Service(NewHandle, name, filter, snapshot)}
          /\ stops' = Append(StopsAfterDrop(responder), 0)
          /\ responder' = Some(NewHandle)
          /\ calls' = Append(calls, StartEvent(TRUE, NewHandle, snapshot))
          /\ UNCHANGED snapshot
       \/ /\ calls' = Append(calls, StartEvent(FALSE, 0, snapshot))
          /\ snapshot' = prev.snapshot
          /\ UNCHANGED <<live, stops, responder>>
    /\ ctrlc' = NextSelect(ctrlc)
    /\ pc' = "select"
    /\ UNCHANGED <<filter, name, prev, changes>>

\* lines 318-326: start_responder with the new snapshot; on success the new
\* responder is assigned (the assignment drops what `responder` held), on
\* failure the error is logged; either way the loop goes on
Restart ==
    /\ pc = "restart"
    /\ startCalls' = startCalls + 1
    /\ \/ /\ live' = LiveAfterDrop(responder)
                        \cup {Service(NewHandle, name, filter, snapshot)}
          /\ stops' = Append(StopsAfterDrop(responder), 0)
          /\ responder' = Some(NewHandle)
          /\ calls' = Append(calls, StartEvent(TRUE, NewHandle, snapshot))
       \/ /\ calls' = Append(calls, StartEvent(FALSE, 0, snapshot))
          /\ UNCHANGED <<live, stops, responder>>
    /\ ctrlc' = NextSelect(ctrlc)
    /\ pc' = "select"
    /\ UNCHANGED <<filter, name, snapshot, prev, changes>>

\* variant: the interrupt is acted on wherever the loop is, also in the
\* middle of a restart
CtrlC_Preempts ==
    /\ pc \in LoopPcs
    /\ ctrlc \in {"notified", "raised"}
    /\ ctrlc' = "taken"
    /\ prev' = Began("shutdown")
    /\ calls' = <<>>
    /\ pc' = "shutdown"
    /\ UNCHANGED <<filter, name, snapshot, responder, live, stops, startCalls,
                   changes>>

\* lines 295-298: the ctrl_c() branch of select!: break
CtrlC ==
    /\ pc = "select"
    /\ ctrlc = "notified"
    /\ ctrlc' = "taken"
    /\ prev' = Began("shutdown")
    /\ calls' = <<>>
    /\ pc' = "shutdown"
    /\ UNCHANGED <<filter, name, snapshot, responder, live, stops, startCalls,
                   changes>>

\* variant: the process ends without dropping the held responder
Shutdown_Leaks ==
    /\ pc = "shutdown"
    /\ responder' = None
    /\ pc' = "Stopped"
    /\ UNCHANGED <<filter, name, snapshot, live, stops, startCalls, calls,
                   prev, changes, ctrlc>>

\* lines 332-336: after the loop, the held responder is taken and dropped
Shutdown ==
    /\ pc = "shutdown"
    /\ live' = LiveAfterDrop(responder)
    /\ stops' = StopsAfterDrop(responder)
    /\ calls' = calls \o StopEvents(responder)
    /\ responder' = None
    /\ pc' = "Stopped"
    /\ UNCHANGED <<filter, name, snapshot, startCalls, prev, changes, ctrlc>>

\* the operator's interrupt, sent once while the loop runs (line 295 waits
\* for it): a loop parked in select! is notified at once, a running handler
\* finds it when it is back at select!
RaiseSignal ==
    /\ pc \in LoopPcs
    /\ ctrlc = "idle"
    /\ ctrlc' = IF pc = "select" THEN "notified" ELSE "raised"
    /\ UNCHANGED <<pc, filter, name, snapshot, responder, live, stops,
                   startCalls, calls, prev, changes>>

----------------------------------------------------------------------------
(* The functions on their own: FnInit draws the raw filter values, the     *)
(* actions apply from_values, matches, collect_snapshot, selected_ips and  *)
(* collect_missing_interfaces to drawn inputs and log input and result in  *)
(* `calls`.                                                                *)

Eth0Upper == <<"E", "t", "h", "0">>

\* values of --interface as the command line can give them
FnRawValues ==
    { <<>>,
      <<Star>>,
      <<eth0>>,
      <<eth0, Star>>,
      <<eth0 \o <<",">> \o Star>>,
      <<<<" ">> \o Star \o <<" ">>, wlan0>>,
      <<<<",">>>>,
      <<<<" ", ",", " ">>, <<>>>>,
      <<eth0 \o <<",", " ">> \o wlan0>>,
      <<<<" ">> \o wlan0 \o <<" ", ",">>, eth0>>,
      <<lo \o <<",">> \o eth0>>,
      <<wlan0 \o <<",">> \o wlan0>>,
      <<Eth0Upper>>,
      <<<<"\t">> \o Star>>,
      <<<<"\t">>>>,
      <<eth0 \o <<",", "\t">> \o wlan0 \o <<"\r", "\n">>>> }

\* names asked of matches
FnNames == {eth0, wlan0, lo, Eth0Upper, Star}

\* interfaces with shared names, shared addresses and absent indexes
FnIfacePool ==
    { [name |-> eth0, ip |-> <<10, 0, 0, 5>>, index |-> <<2>>],
      [name |-> eth0, ip |-> <<10, 0, 0, 6>>, index |-> <<2>>],
      [name |-> wlan0, ip |-> <<10, 0, 0, 6>>, index |-> <<3>>],
      [name |-> wlan0, ip |-> <<10, 0, 0, 6>>, index |-> <<>>],
      [name |-> lo, ip |-> <<127, 0, 0, 1>>, index |-> <<1>>] }

FnEnumerations == UNION { [1..n -> FnIfacePool] : n \in 0..MaxFnIfaces }

FnInit ==
    /\ pc = "fn_values"
    /\ calls \in {<<[op |-> "values", values |-> values]>> :
                     values \in FnRawValues}
    /\ filter = FilterAll
    /\ name = <<"h">>
    /\ snapshot = <<>>
    /\ responder = None
    /\ live = {}
    /\ stops = <<>>
    /\ startCalls = 0
    /\ prev = [handler |-> "fn", snapshot |-> <<>>, responder |-> None]
    /\ changes = 0
    /\ ctrlc = "idle"

\* line 270: the filter of the drawn values
FnFromValues ==
    /\ pc = "fn_values"
    /\ filter' = from_values(calls[1].values)
    /\ pc' = "fn_filter"
    /\ UNCHANGED <<name, snapshot, responder, live, stops, startCalls, calls,
                   prev, changes, ctrlc>>

\* lines 58-63, as collect_snapshot calls it at line 172
FnMatches ==
    /\ pc = "fn_filter"
    /\ \E n \in FnNames :
          calls' = Append(calls, [op |-> "matches", iface_name |-> n,
                                  result |-> matches(filter, n)])
    /\ pc' = "fn_done"
    /\ UNCHANGED <<filter, name, snapshot, responder, live, stops, startCalls,
                   prev, changes, ctrlc>>

\* lines 165-184 on a successful enumeration
FnCollectSnapshot ==
    /\ pc = "fn_filter"
    /\ \E ifaces \in FnEnumerations :
          /\ snapshot' = collect_snapshot(filter, ifaces)
          /\ calls' = Append(calls, [op |-> "collect_snapshot",
                                     ifaces |-> ifaces, result |-> snapshot'])
    /\ pc' = "fn_snapshot"
    /\ UNCHANGED <<filter, name, responder, live, stops, startCalls, prev,
                   changes, ctrlc>>

\* lines 203-212 on the snapshot just collected
FnSelectedIps ==
    /\ pc = "fn_snapshot"
    /\ calls' = Append(calls, [op |-> "selected_ips",
                               result |-> selected_ips(filter, snapshot)])
    /\ pc' = "fn_done"
    /\ UNCHANGED <<filter, name, snapshot, responder, live, stops, startCalls,
                   prev, changes, ctrlc>>

\* lines 186-201: no enumeration under All; under Only the enumeration may
\* fail, and `?` returns the error
FnCollectMissing ==
    /\ pc = "fn_filter"
    /\ \/ /\ filter.kind # "Only"
          /\ calls' = Append(calls,
                [op |-> "collect_missing", enumerated |-> FALSE, ok |-> TRUE,
                 ifaces |-> <<>>, result |-> {}])
       \/ /\ filter.kind = "Only"
          /\ \E ifaces \in FnEnumerations :
                calls' = Append(calls,
                   [op |-> "collect_missing", enumerated |-> TRUE, ok |-> TRUE,
                    ifaces |-> ifaces,
                    result |-> collect_missing_interfaces(filter, ifaces)])
       \/ /\ filter.kind = "Only"
          /\ calls' = Append(calls,
                [op |-> "collect_missing", enumerated |-> TRUE, ok |-> FALSE,
                 ifaces |-> <<>>, result |-> {}])
    /\ pc' = "fn_done"
    /\ UNCHANGED <<filter, name, snapshot, responder, live, stops, startCalls,
                   prev, changes, ctrlc>>

FnNext ==
    \/ FnFromValues
    \/ FnMatches
    \/ FnCollectSnapshot
    \/ FnSelectedIps
    \/ FnCollectMissing

FnSpec == FnInit /\ [][FnNext]_vars

----------------------------------------------------------------------------
Next ==
    \/ StartupMissing
    \/ StartupSnapshot
    \/ StartupResponder
    \/ TickCollectFail
    \/ TickUnchanged
    \/ TickChanged
    \/ DropOld
    \/ Restart
    \/ CtrlC
    \/ Shutdown
    \/ RaiseSignal

Spec == Init /\ [][Next]_vars

\* The handler steps run to completion (no await inside a handler), and
\* select! picks among its ready branches at random, so a ctrl_c() branch
\* that is ready again and again is eventually taken.
FairSpec ==
    /\ Spec
    /\ WF_vars(DropOld)
    /\ WF_vars(Restart)
    /\ WF_vars(Shutdown)
    /\ SF_vars(CtrlC)

----------------------------------------------------------------------------
(* Properties *)

\* the operations of a handler's calls, in order
Ops(cs) == [i \in 1..Len(cs) |-> cs[i].op]

\* the handles running in the collaborator, and the handle held by main
LiveHandles == {s.handle : s \in live}
HeldHandles == {responder[i] : i \in 1..Len(responder)}

\* the handler now running (or last run) is a tick whose collection ...
TickFailed == prev.handler = "tick" /\ ~calls[1].ok
TickSame == prev.handler = "tick" /\ calls[1].ok /\ calls[1].snap = prev.snapshot
TickDiffers == prev.handler = "tick" /\ calls[1].ok /\ calls[1].snap # prev.snapshot

\* C1: at most one responder is running at any time, and start_responder is
\* only called (at startup and in a restart) while none is running.
C1_AtMostOneLiveHandle ==
    /\ Cardinality(live) <= 1
    /\ pc \in {"start_responder", "restart"} => live = {}

\* a restart has dropped the held responder and is about to start the new one
C1_Witness ==
    pc = "restart" /\ prev.responder # None /\ live = {} /\ stops # <<>>

\* C2: a tick that begins with a responder held and collects a snapshot
\* unlike the held one makes exactly one stop (of the held responder) and
\* then exactly one start (with the new snapshot), and the new snapshot is
\* the held one afterwards.
C2_ChangeStopsThenStarts ==
    (pc = "select" /\ TickDiffers /\ prev.responder # None) =>
        /\ Ops(calls) = <<"collect", "stop", "start">>
        /\ calls[2].handle = prev.responder[1]
        /\ stops[prev.responder[1]] = 1
        /\ calls[3].snap = calls[1].snap
        /\ snapshot = calls[1].snap

C2_Witness ==
    pc = "select" /\ TickDiffers /\ prev.responder # None /\ calls[3].ok

\* C3: a tick that collects the held snapshot makes no stop and no start and
\* leaves the held snapshot and the held responder as they were; as long as
\* no tick has seen a different snapshot, the start at startup is the only one.
C3_UnchangedTickDoesNothing ==
    /\ TickSame =>
          /\ pc = "select"
          /\ Ops(calls) = <<"collect">>
          /\ snapshot = prev.snapshot
          /\ responder = prev.responder
          /\ LiveHandles = HeldHandles
    /\ (pc \in LoopPcs /\ changes = 0) => startCalls = 1

C3_Witness ==
    TickSame /\ pc = "select" /\ responder # None /\ changes = 0

\* C4: a tick whose collection fails leaves the loop running with the held
\* snapshot and the held responder unchanged, and makes no stop and no start.
C4_CollectFailureKeepsState ==
    TickFailed =>
        /\ pc = "select"
        /\ Len(calls) = 1
        /\ snapshot = prev.snapshot
        /\ responder = prev.responder
        /\ LiveHandles = HeldHandles

C4_Witness ==
    TickFailed /\ pc = "select" /\ responder # None /\ snapshot # <<>>

\* C5: when the start of a restart fails, the new snapshot is the held one,
\* no responder is running, the loop runs on, and a following tick that
\* collects that snapshot again makes no stop and no start.
C5_FailedRestartKeepsNewSnapshot ==
    /\ (prev.handler = "tick" /\ calls[Len(calls)].op = "start"
            /\ ~calls[Len(calls)].ok) =>
          /\ pc = "select"
          /\ snapshot = calls[1].snap
          /\ snapshot # prev.snapshot
          /\ responder = None
          /\ live = {}
    /\ (TickSame /\ prev.responder = None) =>
          /\ pc = "select"
          /\ Ops(calls) = <<"collect">>
          /\ snapshot = prev.snapshot
          /\ responder = None
          /\ live = {}

\* a tick after a failed restart has collected the held snapshot again
C5_Witness ==
    TickSame /\ prev.responder = None /\ pc = "select" /\ changes >= 1

\* C6: with no responder held, a tick makes no start unless it collects a
\* snapshot unlike the held one; such a tick makes one start and no stop, and
\* if the start succeeds exactly one responder is running again.
C6_NoRetryUntilChange ==
    (prev.handler = "tick" /\ prev.responder = None) =>
        /\ \A i \in 1..Len(calls) : calls[i].op # "stop"
        /\ (TickFailed \/ TickSame) => (pc = "select" /\ Len(calls) = 1)
        /\ (TickDiffers /\ pc = "select") =>
              /\ Ops(calls) = <<"collect", "start">>
              /\ calls[2].ok =>
                    /\ responder = Some(calls[2].handle)
                    /\ LiveHandles = {calls[2].handle}
                    /\ Cardinality(live) = 1

C6_Witness ==
    /\ prev.handler = "tick" /\ prev.responder = None
    /\ TickDiffers /\ pc = "select" /\ calls[2].ok

\* C7: between handlers, a running responder is the held one and was started
\* from the held snapshot, with the addresses selected_ips gives for it; after
\* a tick whose collection succeeded the held snapshot is the collected one.
C7_LiveHandleMatchesHeldSnapshot ==
    pc = "select" =>
        /\ \A s \in live :
              /\ responder = Some(s.handle)
              /\ s.snap = snapshot
              /\ s.ips = selected_ips(filter, snapshot)
        /\ (prev.handler = "tick" /\ calls[1].ok) => snapshot = calls[1].snap

C7_Witness ==
    /\ pc = "select" /\ prev.handler = "tick" /\ changes >= 1
    /\ live # {} /\ snapshot # <<>>

\* C8: the loop is left only by the ctrl_c branch of the select: no step of
\* a tick, whatever its outcome, ends the loop.
C8_OnlyCancellationLeavesRunning ==
    [][(pc \in LoopPcs) =>
          (pc' \in LoopPcs
             \/ (pc = "select" /\ ctrlc = "notified" /\ pc' = "shutdown"))]_vars

\* the loop runs on after a failed refresh with no responder running
C8_Witness ==
    TickFailed /\ pc = "select" /\ responder = None /\ startCalls = MaxStarts

\* C9: once the interrupt has been sent while the loop runs, the daemon
\* eventually reaches Stopped.
C9_SignalLeadsToStopped == (ctrlc # "idle") ~> (pc = "Stopped")

\* C10: no responder is dropped twice or left running unheld; the shutdown
\* path makes no call but the one stop of the held responder (none if none is
\* held), and in Stopped every responder ever started has been stopped once.
C10_ShutdownCleanupOnce ==
    /\ \A h \in 1..Len(stops) : stops[h] <= 1
    /\ \A h \in 1..Len(stops) : (stops[h] = 0) <=> (h \in LiveHandles)
    /\ LiveHandles \subseteq HeldHandles
    /\ pc = "shutdown" => (calls = <<>> /\ snapshot = prev.snapshot)
    /\ pc = "Stopped" =>
          /\ prev.handler = "shutdown"
          /\ snapshot = prev.snapshot
          /\ calls = (IF prev.responder = None THEN <<>>
                      ELSE <<[op |-> "stop", handle |-> prev.responder[1]]>>)
          /\ live = {}
          /\ responder = None
          /\ \A h \in 1..Len(stops) : stops[h] = 1

\* stopped after a restart: the replaced and the last responder are stopped
C10_Witness ==
    pc = "Stopped" /\ prev.responder # None /\ Len(stops) >= 2

\* the calls of the startup that failed
StartupFailures ==
    {i \in 1..Len(calls) :
        calls[i].op \in {"enumerate", "collect", "start"} /\ ~calls[i].ok}

\* C11: main ends with an error, before the loop and with no responder
\* running, exactly when a startup enumeration or the first start fails;
\* when they all succeed the loop is entered with exactly one responder
\* running. An empty first snapshot is no failure: the start is still made.
C11_StartupRunsIffAllSucceed ==
    /\ pc = "Failed" =>
          /\ prev.handler = "startup"
          /\ StartupFailures = {Len(calls)}
          /\ live = {} /\ responder = None
          /\ changes = 0 /\ startCalls <= 1
    /\ (prev.handler = "startup" /\ pc \notin {"Failed", "shutdown", "Stopped"}) =>
          StartupFailures = {}
    /\ (prev.handler = "startup" /\ calls # <<>>
            /\ calls[Len(calls)].op = "collect" /\ calls[Len(calls)].ok) =>
          pc = "start_responder"
    /\ (prev.handler = "startup" /\ calls # <<>>
            /\ calls[Len(calls)].op = "start" /\ calls[Len(calls)].ok) =>
          /\ pc = "select"
          /\ startCalls = 1
          /\ responder = Some(1)
          /\ LiveHandles = {1} /\ Cardinality(live) = 1
          /\ calls[Len(calls) - 1] = CollectEvent(TRUE, snapshot)

\* the loop is entered with a responder started from an empty first snapshot
C11_Witness ==
    /\ prev.handler = "startup" /\ pc = "select"
    /\ snapshot = <<>> /\ live # {}

\* C12: the loop goes to the shutdown path only from the select, on a
\* notification; an interrupt that arrives while a tick is being handled
\* waits until the stop and the start attempt of that tick are done, and once
\* the shutdown path has begun no tick step runs.
C12_CancellationOnlyAtSelect ==
    [][/\ (pc' = "shutdown" /\ pc # "shutdown") =>
              (pc = "select" /\ ctrlc = "notified")
       /\ (ctrlc = "raised") =>
              /\ pc \in {"drop_old", "restart"}
              /\ pc' \in LoopPcs
              /\ (pc = "drop_old") => (pc' = "restart")
              /\ (pc = "restart") =>
                    (pc' = "select" /\ calls'[Len(calls')].op = "start")
       /\ (pc \in {"shutdown", "Stopped"}) => (pc' \in {"shutdown", "Stopped"})
      ]_vars

\* the interrupt has arrived after the old responder was stopped and before
\* the new one is started
C12_Witness ==
    pc = "restart" /\ ctrlc = "raised" /\ Len(calls) = 2 /\ calls[2].op = "stop"

\* C13: every start hands the collaborator the canonical name: the requested
\* name if it ends with ".local", else the name with ".local" appended.
C13_StartPassesCanonicalName ==
    /\ \A i \in 1..Len(calls) :
          (calls[i].op = "start") =>
              /\ calls[i].hostname = fqdn_name(name)
              /\ ends_with(calls[i].hostname, DotLocal)
    /\ \A s \in live :
          s.hostname = fqdn_name(name) /\ ends_with(s.hostname, DotLocal)
    /\ fqdn_name(fqdn_name(name)) = fqdn_name(name)

----------------------------------------------------------------------------
(* Properties of the functions, under FnSpec *)

\* the logged applications of a function
CallsOf(op) == {k \in 1..Len(calls) : calls[k].op = op}

\* the positions of an enumeration that collect_snapshot is to keep
Kept(f, ifaces) ==
    {i \in 1..Len(ifaces) :
        ifaces[i].ip[1] # 127 /\ (f.kind = "All" \/ ifaces[i].name \in f.only)}

\* C14: collect_snapshot returns exactly the entries of the non-loopback
\* interfaces that match the filter, sorted by (name, address, index) and
\* with no entry twice; for [eth0 10.0.0.5, lo 127.0.0.1] under All the
\* result is the one eth0 entry.
C14_SnapshotSortedDeduplicated ==
    \A k \in CallsOf("collect_snapshot") :
        LET ifaces == calls[k].ifaces
            r == calls[k].result
        IN  /\ {r[i] : i \in 1..Len(r)} =
                  {ifaces[i] : i \in Kept(filter, ifaces)}
            /\ \A i, j \in 1..Len(r) : (i < j) => ~SnapshotLess(r[j], r[i])
            /\ \A i, j \in 1..Len(r) : (i # j) => (r[i] # r[j])
            /\ (filter.kind = "All" /\ Len(ifaces) = 2
                    /\ ifaces[1].name = eth0 /\ ifaces[2].name = lo) =>
                  r = <<ifaces[1]>>

Perms(n) == {p \in [1..n -> 1..n] : \A i, j \in 1..n : (p[i] = p[j]) => (i = j)}

Permuted(s, p) == [i \in 1..Len(s) |-> s[p[i]]]

\* C15: for every permutation of an enumeration, collect_snapshot under the
\* same filter gives a snapshot equal to the one of the enumeration itself.
C15_SnapshotIgnoresEnumerationOrder ==
    \A k \in CallsOf("collect_snapshot") :
        \A p \in Perms(Len(calls[k].ifaces)) :
            /\ collect_snapshot(filter, Permuted(calls[k].ifaces, p))
                  = calls[k].result
            /\ calls[k].result
                  = collect_snapshot(filter, Permuted(calls[k].ifaces, p))

\* an enumeration that lists two kept interfaces in descending order
C15_Witness ==
    \E k \in CallsOf("collect_snapshot") :
        \E i, j \in Kept(filter, calls[k].ifaces) :
            i < j /\ SnapshotLess(calls[k].ifaces[j], calls[k].ifaces[i])

\* C16: from_values gives All for an empty list, for a list with an item
\* that is "*" after trimming, and for a list whose items are all empty after
\* trimming; otherwise Only of the trimmed non-empty items. matches is true
\* for every name under All and exactly for the members under Only.
C16_FromValuesAndMatches ==
    (pc # "fn_values") =>
        LET values == calls[1].values
            items == UNION {{Trim(Split(values[i])[j]) :
                               j \in 1..Len(Split(values[i]))} :
                            i \in 1..Len(values)}
            named == items \ {<<>>}
        IN  /\ filter = IF values = <<>> \/ Star \in items \/ named = {}
                        THEN FilterAll ELSE FilterOnly(named)
            /\ \A k \in CallsOf("matches") :
                  calls[k].result =
                     (filter.kind = "All" \/ calls[k].iface_name \in named)

\* a comma-separated value that names eth0, and a name that differs from it
\* in case only
C16_Witness ==
    \E k \in CallsOf("matches") :
        /\ filter.kind = "Only" /\ eth0 \in filter.only
        /\ Len(calls[1].values) = 1 /\ Len(Split(calls[1].values[1])) >= 2
        /\ calls[k].iface_name = Eth0Upper /\ ~calls[k].result

\* C17: selected_ips is empty under All whatever the snapshot; under Only it
\* is the set of the addresses of the snapshot, ascending, each once.
C17_SelectedIpsSortedSet ==
    \A k \in CallsOf("selected_ips") :
        LET r == calls[k].result IN
        /\ (filter.kind = "All") => (r = <<>>)
        /\ (filter.kind = "Only") =>
              /\ {r[i] : i \in 1..Len(r)} =
                    {snapshot[i].ip : i \in 1..Len(snapshot)}
              /\ \A i, j \in 1..Len(r) : (i < j) => IntSeqLess(r[i], r[j])

\* under Only, two entries of the snapshot share an address
C17_Witness ==
    \E k \in CallsOf("selected_ips") :
        /\ filter.kind = "Only"
        /\ Len(calls[k].result) >= 2
        /\ Len(calls[k].result) < Len(snapshot)

\* C19: collect_missing_interfaces gives nothing under All and does not
\* enumerate; under Only it gives the members that are the name of no
\* interface of the whole enumeration, loopback included, and an error when
\* the enumeration fails.
C19_MissingInterfaces ==
    \A k \in CallsOf("collect_missing") :
        LET e == calls[k] IN
        /\ (filter.kind = "All") =>
              (~e.enumerated /\ e.ok /\ e.result = {})
        /\ (filter.kind = "Only") =>
              /\ e.enumerated
              /\ e.ok =>
                    e.result = {n \in filter.only :
                                   \A i \in 1..Len(e.ifaces) :
                                       e.ifaces[i].name # n}
              /\ ~e.ok => e.result = {}

\* lo is asked for and is there, eth0 is asked for and is not
C19_Witness ==
    \E k \in CallsOf("collect_missing") :
        /\ calls[k].ok /\ filter.kind = "Only"
        /\ lo \in filter.only /\ lo \notin calls[k].result
        /\ eth0 \in calls[k].result

----------------------------------------------------------------------------
(* Properties of main, continued *)

\* C18: under an Only filter the address list handed to the collaborator
\* is never one it reads as "no restriction", also when the snapshot is
\* empty; the responder advertises on addresses of the held snapshot only.
C18_OnlyFilterNeverUnrestricted ==
    (filter.kind = "Only") =>
        \A s \in live :
            /\ ~Unrestricted(s.ips)
            /\ {s.ips[i] : i \in 1..Len(s.ips)} \subseteq
                  {s.snap[i].ip : i \in 1..Len(s.snap)}

\* the requested names that no entry of the held snapshot carries (the
\* interfaces of the pool with a requested name have no loopback address,
\* so these are the names absent from the enumeration just collected)
MissingNow ==
    {n \in filter.only : \A i \in 1..Len(snapshot) : snapshot[i].name # n}

\* C20: a tick that detects a change under an Only filter while a
\* requested interface is absent emits the missing-interface warning while
\* handling the change, and restarts all the same.
C20_MissingWarnedOnChange ==
    (pc = "select" /\ TickDiffers /\ filter.kind = "Only" /\ MissingNow # {}) =>
        /\ \E k \in 1..Len(calls) :
              calls[k].op = "warn_missing" /\ calls[k].names = MissingNow
        /\ calls[Len(calls)].op = "start"
====
